---- MODULE Spec2Model ----
(***************************************************************************)
(* Reader-writer cache of src/106_Shared_Mutex/reader_writer_pattern.rs:   *)
(* ThreadSafeCache (a HashMap behind a std::sync::RwLock), the output      *)
(* Mutex, and main's writer thread, reader threads and joins.              *)
(*                                                                         *)
(* Spec     the program main() runs: one writer, three readers, the joins. *)
(* SpecApi  ThreadSafeCache called by a few clients with any operation,    *)
(*          key and value (the type's contract, outside the demo's         *)
(*          particular call sequence).                                     *)
(*                                                                         *)
(* SpecPoison  SpecApi with a panic of a thread inside write(), which       *)
(*          poisons the RwLock.                                            *)
(* SpecFault  Spec with a panic of println!, which poisons the output      *)
(*          Mutex and fails the joins.                                     *)
(* FairSpec  Spec under weak fairness of the scheduler.                    *)
(* SpecCounter  the five threads and the Mutex-protected counter of        *)
(*          Pattern 5 in src/229_Thread_Creation_Patterns/                 *)
(*          thread_creation.rs.                                            *)
(*                                                                         *)
(* Threads are interleaved step by step. thread::sleep only delays a       *)
(* thread by at least its duration and the scheduler may delay any thread  *)
(* for any time, so every interleaving of the steps is an execution.       *)
(***************************************************************************)
EXTENDS Integers, Sequences, FiniteSets, TLC

\* ---------------------------------------------------------------- constants

\* for i in 0..5 (the writer's loop)
NumWrites == 5

\* for i in 0..3 (main's loop spawning the readers)
NumReaders == 3

\* for j in 0..10 (a reader's loop)
NumReads == 10

\* j % 5 (the key a reader asks for)
KeyCycle == 5

\* (0..5) (the threads of Pattern 5 in thread_creation.rs)
NumThreads == 5

\* Bounds of the API harness (SpecApi).
NumClients == 2

NumApiKeys == 2

NumApiValues == 2

MaxWrites == 3

\* ------------------------------------------------------------------ threads

MainThread == "main"

WriterThread == "writer"

\* readers[n], in spawn order
Reader(n) == "reader" \o ToString(n)

Readers == {Reader(n) : n \in 0..(NumReaders - 1)}

Client(n) == "client" \o ToString(n)

Clients == {Client(n) : n \in 0..(NumClients - 1)}

\* format!("key{}", i) and format!("value{}", i)
Key(n) == "key" \o ToString(n)

Value(n) == "value" \o ToString(n)

\* "Not found".to_string()
NotFound == "Not found"

\* No String: a `value` that is not in scope.
NoValue == "<none>"

ApiKeys == {Key(n) : n \in 0..(NumApiKeys - 1)}

ApiValues == {Value(n) : n \in 0..(NumApiValues - 1)}

VARIABLES
    entries,    \* the HashMap<String, String>: a function from its keys
    rw,         \* the RwLock: [readers: shared guards alive, writer: exclusive guard alive]
    cout,       \* the output Mutex: TRUE when locked
    pc,         \* each thread's position
    guard,      \* each thread's `cache` guard in read/write/size: "none", "read", "write"
    lockg,      \* each thread's `_lock` guard of the output Mutex
    i,          \* the writer's loop variable
    j,          \* each reader's loop variable
    value,      \* each thread's `value`: what read() returned
    count,      \* each client's last size() result
    call,       \* each client's current call: [op, key, value]
    printed,    \* lines each thread has written to stdout
    spawned,    \* threads main's spawning loop has spawned
    joined,     \* threads main's joining loop has joined
    completed,  \* history: per key, the value of the last write that released the lock
    nwrites,    \* history: the number of writes that released the lock
    poison,     \* the locks' poison flags: [rw, cout]
    counter,    \* thread_creation.rs, Pattern 5: the i32 in the Mutex
    cmutex,     \* Pattern 5: TRUE when the counter's Mutex is locked
    num,        \* Pattern 5: per thread, the value *num += 1 has loaded
    total       \* Pattern 5: what main read for "Final counter value"

vars == <<entries, rw, cout, pc, guard, lockg, i, j, value, count, call,
          printed, spawned, joined, completed, nwrites,
          poison, counter, cmutex, num, total>>

p5Vars == <<counter, cmutex, num, total>>

demoVars == <<i, j, printed, spawned, joined, cout, lockg>>

\* ------------------------------------------------------------ the HashMap

\* HashMap::new()
EmptyMap == [k \in {} |-> NoValue]

\* Mutant: unwrap_or_default() in place of unwrap_or_else(|| "Not found"...).
Lookup_Default(m, key) == IF key \in DOMAIN m THEN m[key] ELSE ""

\* cache.get(key).map(|v| v.clone()).unwrap_or_else(|| "Not found".to_string())
Lookup(m, key) == IF key \in DOMAIN m THEN m[key] ELSE NotFound

\* Mutant: the map is replaced by one holding the new entry alone.
Insert_Replace(m, key, val) == [k \in {key} |-> val]

\* Mutant: cache.entry(key).or_insert(value), which keeps an existing entry.
Insert_OrInsert(m, key, val) ==
    [k \in (DOMAIN m) \cup {key} |-> IF k \in DOMAIN m THEN m[k] ELSE val]

\* cache.insert(key, value): overwrites the entry of key, or adds one
Insert(m, key, val) == [k \in (DOMAIN m) \cup {key} |-> IF k = key THEN val ELSE m[k]]

\* Mutant: cache.capacity() in place of cache.len() (3 for a small table).
MapLen_Capacity(m) == IF DOMAIN m = {} THEN 0 ELSE 3

\* cache.len()
MapLen(m) == Cardinality(DOMAIN m)

\* --------------------------------------------------- arguments of the calls

\* Mutant: a reader asks for format!("key{}", j), without the % 5.
KeyArg_NoModulo(t) ==
    IF t \in Clients THEN call[t].key
    ELSE IF t = WriterThread THEN Key(i)
    ELSE Key(j[t])

\* The key a thread passes to read() or write().
KeyArg(t) ==
    IF t \in Clients THEN call[t].key
    ELSE IF t = WriterThread THEN Key(i)
    ELSE Key(j[t] % KeyCycle)

\* Mutant: the writer passes format!("key{}", i) for the value too.
ValueArg_Key(t) == IF t \in Clients THEN call[t].value ELSE Key(i)

\* The value the thread passes to write().
ValueArg(t) == IF t \in Clients THEN call[t].value ELSE Value(i)

\* Where a thread continues after a cache call returns.
AfterCall(t) == IF t \in Clients THEN "ret" ELSE "lock"

\* ------------------------------------------------------------ the RwLock

\* Mutant: read() does not wait for the writer.
CanRead_IgnoresWriter == TRUE

\* Mutant: read() is granted to one thread at a time, like Mutex::lock().
CanRead_Serialized == ~rw.writer /\ rw.readers = 0

\* RwLock::read() returns when no writer holds the lock.
CanRead == ~rw.writer

\* Mutant: write() does not wait for the readers.
CanWrite_IgnoresReaders == ~rw.writer

\* RwLock::write() returns when no reader and no writer holds the lock.
CanWrite == ~rw.writer /\ rw.readers = 0

\* Mutant: .unwrap_or_else(|e| e.into_inner()), which takes the guard of a
\* poisoned lock.
LockOk_IntoInner == TRUE

\* .unwrap() of the LockResult: Ok(guard) when the RwLock is not poisoned.
LockOk == ~poison.rw

\* ----------------------------------------------------- ThreadSafeCache::read

\* let cache = self.cache.read().unwrap();
ReadAcquire(t) ==
    /\ pc[t] = "read"
    /\ CanRead
    /\ LockOk
    /\ rw' = [rw EXCEPT !.readers = @ + 1]
    /\ guard' = [guard EXCEPT ![t] = "read"]
    /\ pc' = [pc EXCEPT ![t] = "get"]
    /\ UNCHANGED <<entries, value, count, call, completed, nwrites>>
    /\ UNCHANGED demoVars
    /\ UNCHANGED <<poison, p5Vars>>

\* Mutant: the read guard outlives the call (it is not dropped on return).
ReadGet_KeepsGuard(t) ==
    /\ pc[t] = "get"
    /\ value' = [value EXCEPT ![t] = Lookup(entries, KeyArg(t))]
    /\ pc' = [pc EXCEPT ![t] = AfterCall(t)]
    /\ UNCHANGED <<entries, rw, guard, count, call, completed, nwrites>>
    /\ UNCHANGED demoVars
    /\ UNCHANGED <<poison, p5Vars>>

\* Mutant: cache.remove(key) in place of cache.get(key).
ReadGet_Removes(t) ==
    /\ pc[t] = "get"
    /\ value' = [value EXCEPT ![t] = Lookup(entries, KeyArg(t))]
    /\ entries' = [k \in (DOMAIN entries) \ {KeyArg(t)} |-> entries[k]]
    /\ rw' = [rw EXCEPT !.readers = @ - 1]
    /\ guard' = [guard EXCEPT ![t] = "none"]
    /\ pc' = [pc EXCEPT ![t] = AfterCall(t)]
    /\ UNCHANGED <<count, call, completed, nwrites>>
    /\ UNCHANGED demoVars
    /\ UNCHANGED <<poison, p5Vars>>

\* cache.get(key)...; the guard is dropped as read returns
ReadGet(t) ==
    /\ pc[t] = "get"
    /\ value' = [value EXCEPT ![t] = Lookup(entries, KeyArg(t))]
    /\ rw' = [rw EXCEPT !.readers = @ - 1]
    /\ guard' = [guard EXCEPT ![t] = "none"]
    /\ pc' = [pc EXCEPT ![t] = AfterCall(t)]
    /\ UNCHANGED <<entries, count, call, completed, nwrites>>
    /\ UNCHANGED demoVars
    /\ UNCHANGED <<poison, p5Vars>>

\* ---------------------------------------------------- ThreadSafeCache::write

\* let mut cache = self.cache.write().unwrap();
WriteAcquire(t) ==
    /\ pc[t] = "write"
    /\ CanWrite
    /\ LockOk
    /\ rw' = [rw EXCEPT !.writer = TRUE]
    /\ guard' = [guard EXCEPT ![t] = "write"]
    /\ pc' = [pc EXCEPT ![t] = "insert"]
    /\ UNCHANGED <<entries, value, count, call, completed, nwrites>>
    /\ UNCHANGED demoVars
    /\ UNCHANGED <<poison, p5Vars>>

\* cache.insert(key, value);
WriteInsert(t) ==
    /\ pc[t] = "insert"
    /\ entries' = Insert(entries, KeyArg(t), ValueArg(t))
    /\ pc' = [pc EXCEPT ![t] = "drop"]
    /\ UNCHANGED <<rw, guard, value, count, call, completed, nwrites>>
    /\ UNCHANGED demoVars
    /\ UNCHANGED <<poison, p5Vars>>

\* Mutant: the write guard is leaked (the lock is never released).
WriteDrop_KeepsGuard(t) ==
    /\ pc[t] = "drop"
    /\ completed' = Insert(completed, KeyArg(t), ValueArg(t))
    /\ nwrites' = nwrites + 1
    /\ pc' = [pc EXCEPT ![t] = AfterCall(t)]
    /\ UNCHANGED <<entries, rw, guard, value, count, call>>
    /\ UNCHANGED demoVars
    /\ UNCHANGED <<poison, p5Vars>>

\* the guard is dropped as write returns
WriteDrop(t) ==
    /\ pc[t] = "drop"
    /\ rw' = [rw EXCEPT !.writer = FALSE]
    /\ guard' = [guard EXCEPT ![t] = "none"]
    /\ completed' = Insert(completed, KeyArg(t), ValueArg(t))
    /\ nwrites' = nwrites + 1
    /\ pc' = [pc EXCEPT ![t] = AfterCall(t)]
    /\ UNCHANGED <<entries, value, count, call>>
    /\ UNCHANGED demoVars
    /\ UNCHANGED <<poison, p5Vars>>

\* ----------------------------------------------------- ThreadSafeCache::size

\* let cache = self.cache.read().unwrap();
SizeAcquire(t) ==
    /\ pc[t] = "size"
    /\ CanRead
    /\ LockOk
    /\ rw' = [rw EXCEPT !.readers = @ + 1]
    /\ guard' = [guard EXCEPT ![t] = "read"]
    /\ pc' = [pc EXCEPT ![t] = "len"]
    /\ UNCHANGED <<entries, value, count, call, completed, nwrites>>
    /\ UNCHANGED demoVars
    /\ UNCHANGED <<poison, p5Vars>>

\* cache.len(); the guard is dropped as size returns
SizeLen(t) ==
    /\ pc[t] = "len"
    /\ count' = [count EXCEPT ![t] = MapLen(entries)]
    /\ rw' = [rw EXCEPT !.readers = @ - 1]
    /\ guard' = [guard EXCEPT ![t] = "none"]
    /\ pc' = [pc EXCEPT ![t] = AfterCall(t)]
    /\ UNCHANGED <<entries, value, call, completed, nwrites>>
    /\ UNCHANGED demoVars
    /\ UNCHANGED <<poison, p5Vars>>

\* ------------------------------------------------------ the output Mutex

\* Mutant: lock() does not wait for the holder.
CanLock_Always == TRUE

\* Mutex::lock() returns when the mutex is unlocked.
CanLock == ~cout

\* .unwrap() of the LockResult: Ok(guard) when the Mutex is not poisoned.
CoutOk == ~poison.cout

\* let _lock = cout_writer.lock().unwrap();  (cout_reader in a reader)
CoutLock(t) ==
    /\ pc[t] = "lock"
    /\ CanLock
    /\ CoutOk
    /\ cout' = TRUE
    /\ lockg' = [lockg EXCEPT ![t] = TRUE]
    /\ pc' = [pc EXCEPT ![t] = "println"]
    /\ UNCHANGED <<entries, rw, guard, i, j, value, count, call, printed,
                   spawned, joined, completed, nwrites>>
    /\ UNCHANGED <<poison, p5Vars>>

\* Mutant: without the block's braces, _lock lives on through the sleep.
CoutPrintln_KeepsLock(t) ==
    /\ pc[t] = "println"
    /\ printed' = [printed EXCEPT ![t] = @ + 1]
    /\ value' = [value EXCEPT ![t] = NoValue]
    /\ pc' = [pc EXCEPT ![t] = "sleep"]
    /\ UNCHANGED <<entries, rw, guard, i, j, count, call, cout, lockg,
                   spawned, joined, completed, nwrites>>
    /\ UNCHANGED <<poison, p5Vars>>

\* println!(...); } the guard _lock is dropped at the end of the block.
\* `value` is not used after the line is written.
CoutPrintln(t) ==
    /\ pc[t] = "println"
    /\ printed' = [printed EXCEPT ![t] = @ + 1]
    /\ cout' = FALSE
    /\ lockg' = [lockg EXCEPT ![t] = FALSE]
    /\ value' = [value EXCEPT ![t] = NoValue]
    /\ pc' = [pc EXCEPT ![t] = "sleep"]
    /\ UNCHANGED <<entries, rw, guard, i, j, count, call,
                   spawned, joined, completed, nwrites>>
    /\ UNCHANGED <<poison, p5Vars>>

\* ------------------------------------------------------ the writer thread

\* Mutant: for i in (0..5).step_by(2)
WriterSleep_StepByTwo ==
    /\ pc[WriterThread] = "sleep"
    /\ i' = i + 2
    /\ pc' = [pc EXCEPT ![WriterThread] = IF i + 2 < NumWrites THEN "write" ELSE "done"]
    /\ UNCHANGED <<entries, rw, cout, guard, lockg, j, value, count, call,
                   printed, spawned, joined, completed, nwrites>>
    /\ UNCHANGED <<poison, p5Vars>>

\* thread::sleep(Duration::from_millis(100)); then the next i of 0..5
WriterSleep ==
    /\ pc[WriterThread] = "sleep"
    /\ i' = i + 1
    /\ pc' = [pc EXCEPT ![WriterThread] = IF i + 1 < NumWrites THEN "write" ELSE "done"]
    /\ UNCHANGED <<entries, rw, cout, guard, lockg, j, value, count, call,
                   printed, spawned, joined, completed, nwrites>>
    /\ UNCHANGED <<poison, p5Vars>>

\* ------------------------------------------------------ a reader thread

\* thread::sleep(Duration::from_millis(50)); then the next j of 0..10
ReaderSleep(r) ==
    /\ pc[r] = "sleep"
    /\ j' = [j EXCEPT ![r] = @ + 1]
    /\ pc' = [pc EXCEPT ![r] = IF j[r] + 1 < NumReads THEN "read" ELSE "done"]
    /\ UNCHANGED <<entries, rw, cout, guard, lockg, i, value, count, call,
                   printed, spawned, joined, completed, nwrites>>
    /\ UNCHANGED <<poison, p5Vars>>

\* ------------------------------------------------------------------ main

\* Mutant: the writer prints a status line before its first write.
SpawnWriter_PrintFirst ==
    /\ pc[MainThread] = "spawn_writer"
    /\ pc' = [pc EXCEPT ![WriterThread] = "lock", ![MainThread] = "spawn_readers"]
    /\ UNCHANGED <<entries, rw, cout, guard, lockg, i, j, value, count, call,
                   printed, spawned, joined, completed, nwrites>>
    /\ UNCHANGED <<poison, p5Vars>>

\* let writer = thread::spawn(move || { ... });
SpawnWriter ==
    /\ pc[MainThread] = "spawn_writer"
    /\ pc' = [pc EXCEPT ![WriterThread] = "write", ![MainThread] = "spawn_readers"]
    /\ UNCHANGED <<entries, rw, cout, guard, lockg, i, j, value, count, call,
                   printed, spawned, joined, completed, nwrites>>
    /\ UNCHANGED <<poison, p5Vars>>

\* for i in 0..3 { let reader = thread::spawn(...); readers.push(reader); }
SpawnReader ==
    /\ pc[MainThread] = "spawn_readers"
    /\ spawned' = spawned + 1
    /\ pc' = [pc EXCEPT ![Reader(spawned)] = "read",
                        ![MainThread] = IF spawned + 1 < NumReaders
                                        THEN "spawn_readers" ELSE "join_writer"]
    /\ UNCHANGED <<entries, rw, cout, guard, lockg, i, j, value, count, call,
                   printed, joined, completed, nwrites>>
    /\ UNCHANGED <<poison, p5Vars>>

\* Mutant: main goes on without waiting for the writer.
JoinWriter_NoWait ==
    /\ pc[MainThread] = "join_writer"
    /\ pc' = [pc EXCEPT ![MainThread] = "join_readers"]
    /\ UNCHANGED <<entries, rw, cout, guard, lockg, i, j, value, count, call,
                   printed, spawned, joined, completed, nwrites>>
    /\ UNCHANGED <<poison, p5Vars>>

\* writer.join().unwrap();
JoinWriter ==
    /\ pc[MainThread] = "join_writer"
    /\ pc[WriterThread] = "done"
    /\ pc' = [pc EXCEPT ![MainThread] = "join_readers"]
    /\ UNCHANGED <<entries, rw, cout, guard, lockg, i, j, value, count, call,
                   printed, spawned, joined, completed, nwrites>>
    /\ UNCHANGED <<poison, p5Vars>>

\* for reader in readers { reader.join().unwrap(); }
JoinReader ==
    /\ pc[MainThread] = "join_readers"
    /\ pc[Reader(joined)] = "done"
    /\ joined' = joined + 1
    /\ pc' = [pc EXCEPT ![MainThread] = IF joined + 1 < NumReaders
                                        THEN "join_readers" ELSE "done"]
    /\ UNCHANGED <<entries, rw, cout, guard, lockg, i, j, value, count, call,
                   printed, spawned, completed, nwrites>>
    /\ UNCHANGED <<poison, p5Vars>>

\* ------------------------------------------------------- the program, main()

DemoThreads == {MainThread, WriterThread} \cup Readers

\* let cache = Arc::new(ThreadSafeCache::new());
\* let cout_mutex = Arc::new(Mutex::new(()));
Init ==
    /\ entries = EmptyMap
    /\ rw = [readers |-> 0, writer |-> FALSE]
    /\ cout = FALSE
    /\ pc = [t \in DemoThreads |-> IF t = MainThread THEN "spawn_writer" ELSE "unspawned"]
    /\ guard = [t \in DemoThreads |-> "none"]
    /\ lockg = [t \in DemoThreads |-> FALSE]
    /\ i = 0
    /\ j = [r \in Readers |-> 0]
    /\ value = [t \in DemoThreads |-> NoValue]
    /\ count = [t \in {} |-> 0]
    /\ call = [t \in {} |-> 0]
    /\ printed = [t \in DemoThreads |-> 0]
    /\ spawned = 0
    /\ joined = 0
    /\ completed = EmptyMap
    /\ nwrites = 0
    /\ poison = [rw |-> FALSE, cout |-> FALSE]
    /\ counter = 0
    /\ cmutex = FALSE
    /\ num = [t \in {} |-> 0]
    /\ total = 0

Next ==
    \/ SpawnWriter
    \/ SpawnReader
    \/ JoinWriter
    \/ JoinReader
    \/ WriteAcquire(WriterThread)
    \/ WriteInsert(WriterThread)
    \/ WriteDrop(WriterThread)
    \/ CoutLock(WriterThread)
    \/ CoutPrintln(WriterThread)
    \/ WriterSleep
    \/ \E r \in Readers :
        \/ ReadAcquire(r)
        \/ ReadGet(r)
        \/ CoutLock(r)
        \/ CoutPrintln(r)
        \/ ReaderSleep(r)

Spec == Init /\ [][Next]_vars

\* ------------------------------------------- ThreadSafeCache under any caller

\* Writes the clients have begun and not finished.
WritesInFlight == Cardinality({c \in Clients : pc[c] \in {"write", "insert", "drop"}})

\* A client calls cache.read(&key).
CallRead(c, key) ==
    /\ pc[c] = "idle"
    /\ call' = [call EXCEPT ![c] = [op |-> "read", key |-> key, value |-> NoValue]]
    /\ pc' = [pc EXCEPT ![c] = "read"]
    /\ UNCHANGED <<entries, rw, guard, value, count, completed, nwrites>>
    /\ UNCHANGED demoVars
    /\ UNCHANGED <<poison, p5Vars>>

\* A client calls cache.write(key, val).
CallWrite(c, key, val) ==
    /\ pc[c] = "idle"
    /\ nwrites + WritesInFlight < MaxWrites
    /\ call' = [call EXCEPT ![c] = [op |-> "write", key |-> key, value |-> val]]
    /\ pc' = [pc EXCEPT ![c] = "write"]
    /\ UNCHANGED <<entries, rw, guard, value, count, completed, nwrites>>
    /\ UNCHANGED demoVars
    /\ UNCHANGED <<poison, p5Vars>>

\* A client calls cache.size().
CallSize(c) ==
    /\ pc[c] = "idle"
    /\ call' = [call EXCEPT ![c] = [op |-> "size", key |-> NoValue, value |-> NoValue]]
    /\ pc' = [pc EXCEPT ![c] = "size"]
    /\ UNCHANGED <<entries, rw, guard, value, count, completed, nwrites>>
    /\ UNCHANGED demoVars
    /\ UNCHANGED <<poison, p5Vars>>

NoCall == [op |-> "none", key |-> NoValue, value |-> NoValue]

\* The call has returned; the client drops what it returned.
CallReturn(c) ==
    /\ pc[c] = "ret"
    /\ call' = [call EXCEPT ![c] = NoCall]
    /\ value' = [value EXCEPT ![c] = NoValue]
    /\ count' = [count EXCEPT ![c] = 0]
    /\ pc' = [pc EXCEPT ![c] = "idle"]
    /\ UNCHANGED <<entries, rw, guard, completed, nwrites>>
    /\ UNCHANGED demoVars
    /\ UNCHANGED <<poison, p5Vars>>

\* let cache = ThreadSafeCache::new(); shared by the clients
InitApi ==
    /\ entries = EmptyMap
    /\ rw = [readers |-> 0, writer |-> FALSE]
    /\ cout = FALSE
    /\ pc = [c \in Clients |-> "idle"]
    /\ guard = [c \in Clients |-> "none"]
    /\ lockg = [c \in Clients |-> FALSE]
    /\ i = 0
    /\ j = [r \in {} |-> 0]
    /\ value = [c \in Clients |-> NoValue]
    /\ count = [c \in Clients |-> 0]
    /\ call = [c \in Clients |-> NoCall]
    /\ printed = [c \in Clients |-> 0]
    /\ spawned = 0
    /\ joined = 0
    /\ completed = EmptyMap
    /\ nwrites = 0
    /\ poison = [rw |-> FALSE, cout |-> FALSE]
    /\ counter = 0
    /\ cmutex = FALSE
    /\ num = [t \in {} |-> 0]
    /\ total = 0

NextApi ==
    \E c \in Clients :
        \/ \E key \in ApiKeys : CallRead(c, key)
        \/ \E key \in ApiKeys, val \in ApiValues : CallWrite(c, key, val)
        \/ CallSize(c)
        \/ CallReturn(c)
        \/ ReadAcquire(c)
        \/ ReadGet(c)
        \/ WriteAcquire(c)
        \/ WriteInsert(c)
        \/ WriteDrop(c)
        \/ SizeAcquire(c)
        \/ SizeLen(c)

SpecApi == InitApi /\ [][NextApi]_vars

\* ------------------------------------------------------- a poisoned RwLock

\* The call of a panicked thread: its arguments are dropped as it unwinds.
Unwound(c) == [op |-> c.op, key |-> NoValue, value |-> NoValue]

\* The thread panics inside write(), before or after the insertion. The write
\* guard is dropped while the thread unwinds, which poisons the RwLock and
\* releases it.
WritePanic(t) ==
    /\ pc[t] \in {"insert", "drop"}
    /\ poison' = [poison EXCEPT !.rw = TRUE]
    /\ rw' = [rw EXCEPT !.writer = FALSE]
    /\ guard' = [guard EXCEPT ![t] = "none"]
    /\ pc' = [pc EXCEPT ![t] = "panicked"]
    /\ call' = [call EXCEPT ![t] = Unwound(@)]
    /\ UNCHANGED <<entries, value, count, completed, nwrites>>
    /\ UNCHANGED demoVars
    /\ UNCHANGED p5Vars

\* self.cache.read().unwrap() in read(): the RwLock is poisoned, read()
\* returns Err and unwrap panics.
ReadPoisoned(t) ==
    /\ pc[t] = "read"
    /\ CanRead
    /\ ~LockOk
    /\ pc' = [pc EXCEPT ![t] = "panicked"]
    /\ call' = [call EXCEPT ![t] = Unwound(@)]
    /\ UNCHANGED <<entries, rw, guard, value, count, completed, nwrites>>
    /\ UNCHANGED demoVars
    /\ UNCHANGED <<poison, p5Vars>>

\* self.cache.write().unwrap() in write(), the RwLock poisoned
WritePoisoned(t) ==
    /\ pc[t] = "write"
    /\ CanWrite
    /\ ~LockOk
    /\ pc' = [pc EXCEPT ![t] = "panicked"]
    /\ call' = [call EXCEPT ![t] = Unwound(@)]
    /\ UNCHANGED <<entries, rw, guard, value, count, completed, nwrites>>
    /\ UNCHANGED demoVars
    /\ UNCHANGED <<poison, p5Vars>>

\* self.cache.read().unwrap() in size(), the RwLock poisoned
SizePoisoned(t) ==
    /\ pc[t] = "size"
    /\ CanRead
    /\ ~LockOk
    /\ pc' = [pc EXCEPT ![t] = "panicked"]
    /\ call' = [call EXCEPT ![t] = Unwound(@)]
    /\ UNCHANGED <<entries, rw, guard, value, count, completed, nwrites>>
    /\ UNCHANGED demoVars
    /\ UNCHANGED <<poison, p5Vars>>

\* ThreadSafeCache under any caller, a write of which may panic.
NextPoison ==
    \/ NextApi
    \/ \E c \in Clients :
        \/ WritePanic(c)
        \/ ReadPoisoned(c)
        \/ WritePoisoned(c)
        \/ SizePoisoned(c)

SpecPoison == InitApi /\ [][NextPoison]_vars

\* ------------------------------------------------- a failed thread of main()

\* println! panics when the line cannot be written to stdout. The guard _lock
\* is dropped while the thread unwinds, which poisons the output Mutex and
\* unlocks it.
PrintlnPanic(t) ==
    /\ pc[t] = "println"
    /\ poison' = [poison EXCEPT !.cout = TRUE]
    /\ cout' = FALSE
    /\ lockg' = [lockg EXCEPT ![t] = FALSE]
    /\ value' = [value EXCEPT ![t] = NoValue]
    /\ pc' = [pc EXCEPT ![t] = "panicked"]
    /\ UNCHANGED <<entries, rw, guard, i, j, count, call, printed,
                   spawned, joined, completed, nwrites>>
    /\ UNCHANGED p5Vars

\* cout_writer.lock().unwrap() (cout_reader in a reader): the Mutex is
\* poisoned, lock() returns Err and unwrap panics.
CoutPoisoned(t) ==
    /\ pc[t] = "lock"
    /\ CanLock
    /\ ~CoutOk
    /\ value' = [value EXCEPT ![t] = NoValue]
    /\ pc' = [pc EXCEPT ![t] = "panicked"]
    /\ UNCHANGED <<entries, rw, guard, cout, lockg, i, j, count, call, printed,
                   spawned, joined, completed, nwrites>>
    /\ UNCHANGED <<poison, p5Vars>>

\* Mutant: let _ = writer.join(); the writer's panic is dropped.
JoinWriterErr_Ignored ==
    /\ pc[MainThread] = "join_writer"
    /\ pc[WriterThread] = "panicked"
    /\ pc' = [pc EXCEPT ![MainThread] = "join_readers"]
    /\ UNCHANGED <<entries, rw, cout, guard, lockg, i, j, value, count, call,
                   printed, spawned, joined, completed, nwrites>>
    /\ UNCHANGED <<poison, p5Vars>>

\* writer.join().unwrap(); the writer panicked: join returns Err and unwrap
\* panics in main.
JoinWriterErr ==
    /\ pc[MainThread] = "join_writer"
    /\ pc[WriterThread] = "panicked"
    /\ pc' = [pc EXCEPT ![MainThread] = "panicked"]
    /\ UNCHANGED <<entries, rw, cout, guard, lockg, i, j, value, count, call,
                   printed, spawned, joined, completed, nwrites>>
    /\ UNCHANGED <<poison, p5Vars>>

\* reader.join().unwrap(); the reader panicked
JoinReaderErr ==
    /\ pc[MainThread] = "join_readers"
    /\ pc[Reader(joined)] = "panicked"
    /\ pc' = [pc EXCEPT ![MainThread] = "panicked"]
    /\ UNCHANGED <<entries, rw, cout, guard, lockg, i, j, value, count, call,
                   printed, spawned, joined, completed, nwrites>>
    /\ UNCHANGED <<poison, p5Vars>>

\* main(), a println! of which may panic.
NextFault ==
    \/ Next
    \/ \E t \in {WriterThread} \cup Readers :
        \/ PrintlnPanic(t)
        \/ CoutPoisoned(t)
    \/ JoinWriterErr
    \/ JoinReaderErr

SpecFault == Init /\ [][NextFault]_vars

\* ------------------------- thread_creation.rs, Pattern 5: the shared counter

\* handles[n], in spawn order
Worker(n) == "thread" \o ToString(n)

Workers == {Worker(n) : n \in 0..(NumThreads - 1)}

p5Frame == <<entries, rw, cout, guard, lockg, i, j, value, count, call,
             printed, completed, nwrites, poison>>

\* Mutant: lock() does not wait for the holder.
CanLockCounter_Always == TRUE

\* Mutex::lock() returns when the mutex is unlocked.
CanLockCounter == ~cmutex

\* (0..5).map(|_| { ... thread::spawn(move || { ... }) }).collect();
SpawnWorker ==
    /\ pc[MainThread] = "spawn"
    /\ spawned' = spawned + 1
    /\ pc' = [pc EXCEPT ![Worker(spawned)] = "lock",
                        ![MainThread] = IF spawned + 1 < NumThreads
                                        THEN "spawn" ELSE "join"]
    /\ UNCHANGED <<joined, counter, cmutex, num, total>>
    /\ UNCHANGED p5Frame

\* let mut num = counter.lock().unwrap();
CounterLock(t) ==
    /\ pc[t] = "lock"
    /\ CanLockCounter
    /\ cmutex' = TRUE
    /\ pc' = [pc EXCEPT ![t] = "load"]
    /\ UNCHANGED <<spawned, joined, counter, num, total>>
    /\ UNCHANGED p5Frame

\* *num += 1; the load of the counter
CounterLoad(t) ==
    /\ pc[t] = "load"
    /\ num' = [num EXCEPT ![t] = counter]
    /\ pc' = [pc EXCEPT ![t] = "store"]
    /\ UNCHANGED <<spawned, joined, counter, cmutex, total>>
    /\ UNCHANGED p5Frame

\* *num += 1; the store of the sum
CounterStore(t) ==
    /\ pc[t] = "store"
    /\ counter' = num[t] + 1
    /\ pc' = [pc EXCEPT ![t] = "unlock"]
    /\ UNCHANGED <<spawned, joined, cmutex, num, total>>
    /\ UNCHANGED p5Frame

\* the guard num is dropped at the end of the closure
CounterUnlock(t) ==
    /\ pc[t] = "unlock"
    /\ cmutex' = FALSE
    /\ num' = [num EXCEPT ![t] = 0]
    /\ pc' = [pc EXCEPT ![t] = "done"]
    /\ UNCHANGED <<spawned, joined, counter, total>>
    /\ UNCHANGED p5Frame

\* for handle in handles { handle.join().unwrap(); }
JoinWorker ==
    /\ pc[MainThread] = "join"
    /\ pc[Worker(joined)] = "done"
    /\ joined' = joined + 1
    /\ pc' = [pc EXCEPT ![MainThread] = IF joined + 1 < NumThreads
                                        THEN "join" ELSE "lock"]
    /\ UNCHANGED <<spawned, counter, cmutex, num, total>>
    /\ UNCHANGED p5Frame

\* println!("Final counter value: {}", *counter.lock().unwrap());
\* the value read under the guard
FinalRead ==
    /\ pc[MainThread] = "load"
    /\ total' = counter
    /\ pc' = [pc EXCEPT ![MainThread] = "unlock"]
    /\ UNCHANGED <<spawned, joined, counter, cmutex, num>>
    /\ UNCHANGED p5Frame

\* the temporary guard is dropped at the end of the println! statement
FinalUnlock ==
    /\ pc[MainThread] = "unlock"
    /\ cmutex' = FALSE
    /\ pc' = [pc EXCEPT ![MainThread] = "done"]
    /\ UNCHANGED <<spawned, joined, counter, num, total>>
    /\ UNCHANGED p5Frame

\* let counter = Arc::new(Mutex::new(0));
InitCounter ==
    /\ entries = EmptyMap
    /\ rw = [readers |-> 0, writer |-> FALSE]
    /\ cout = FALSE
    /\ pc = [t \in {MainThread} \cup Workers |->
                IF t = MainThread THEN "spawn" ELSE "unspawned"]
    /\ guard = [t \in {MainThread} \cup Workers |-> "none"]
    /\ lockg = [t \in {MainThread} \cup Workers |-> FALSE]
    /\ i = 0
    /\ j = [r \in {} |-> 0]
    /\ value = [t \in {} |-> NoValue]
    /\ count = [t \in {} |-> 0]
    /\ call = [t \in {} |-> 0]
    /\ printed = [t \in {} |-> 0]
    /\ spawned = 0
    /\ joined = 0
    /\ completed = EmptyMap
    /\ nwrites = 0
    /\ poison = [rw |-> FALSE, cout |-> FALSE]
    /\ counter = 0
    /\ cmutex = FALSE
    /\ num = [t \in Workers |-> 0]
    /\ total = 0

NextCounter ==
    \/ SpawnWorker
    \/ JoinWorker
    \/ CounterLock(MainThread)
    \/ FinalRead
    \/ FinalUnlock
    \/ \E t \in Workers :
        \/ CounterLock(t)
        \/ CounterLoad(t)
        \/ CounterStore(t)
        \/ CounterUnlock(t)

SpecCounter == InitCounter /\ [][NextCounter]_vars

\* ================================================================ properties

SharedHolders == {t \in DOMAIN pc : guard[t] = "read"}

ExclusiveHolders == {t \in DOMAIN pc : guard[t] = "write"}

\* Thread t's step is the one that leaves position p.
Leaves(t, p) == pc[t] = p /\ pc'[t] # p

\* ------------------------------------------------------------------- C1

C1_Exclusion ==
    /\ \/ ExclusiveHolders = {}
       \/ Cardinality(ExclusiveHolders) = 1 /\ SharedHolders = {}
    /\ rw.readers = Cardinality(SharedHolders)
    /\ rw.writer = (ExclusiveHolders # {})

C1_Grant ==
    \A t \in DOMAIN pc :
        /\ (guard[t] = "none" /\ guard'[t] = "write")
              => (SharedHolders = {} /\ ExclusiveHolders = {})
        /\ (guard[t] = "none" /\ guard'[t] = "read")
              => ExclusiveHolders = {}

\* C1: in every reachable state either no thread holds exclusive access (and
\* any number hold shared access), or exactly one holds exclusive access and
\* none holds shared access; exclusive access is granted only in a state with
\* no holder at all, shared access only in a state with no exclusive holder.
C1_MutualExclusion == [](C1_Exclusion) /\ [][C1_Grant]_vars

\* A thread holds exclusive access while another is blocked in read(),
\* write() or size().
C1_Witness ==
    \E t, u \in DOMAIN pc :
        /\ guard[t] = "write"
        /\ pc[u] \in {"read", "write", "size"}

\* ------------------------------------------------------------------- C2

\* C2: a read(k) whose lookup runs after a write(k, v) released the lock, with
\* no later write to k released, returns v.
C2_ReadCorrectness ==
    [][\A t \in DOMAIN pc :
          (Leaves(t, "get") /\ KeyArg(t) \in DOMAIN completed)
              => value'[t] = completed[KeyArg(t)]]_vars

\* A read has returned a value when the only key written was written twice.
C2_Witness ==
    \E c \in DOMAIN pc :
        /\ pc[c] = "ret"
        /\ call[c].op = "read"
        /\ value[c] \in ApiValues
        /\ MapLen(completed) = 1
        /\ nwrites >= 2

\* ------------------------------------------------------------------- C3

\* C3: a read(k) whose lookup runs when no write to k has released the lock
\* returns "Not found"; the new cache is empty.
C3_AbsenceCorrectness ==
    /\ [][\A t \in DOMAIN pc :
            (Leaves(t, "get") /\ KeyArg(t) \notin DOMAIN completed)
                => value'[t] = NotFound]_vars
    /\ [](nwrites = 0 /\ ExclusiveHolders = {} => entries = EmptyMap)

\* A read of a key never written has returned "Not found" although another
\* key has been written.
C3_Witness ==
    \E c \in DOMAIN pc :
        /\ pc[c] = "ret"
        /\ call[c].op = "read"
        /\ call[c].key \notin DOMAIN completed
        /\ value[c] = NotFound
        /\ nwrites > 0

\* ------------------------------------------------------------------- C4

\* C4: when write(k, v) releases the lock, a lookup of k gives v, and the map
\* has one entry more than after the previous write if k had no entry then,
\* and as many if it had one.
C4_Overwrite ==
    [][\A t \in DOMAIN pc :
          Leaves(t, "drop") =>
              /\ Lookup(entries', KeyArg(t)) = ValueArg(t)
              /\ MapLen(entries') = MapLen(completed)
                    + (IF KeyArg(t) \in DOMAIN completed THEN 0 ELSE 1)]_vars

\* write(k, v2) has inserted over the v1 of an earlier write(k, v1).
C4_Witness ==
    \E t \in DOMAIN pc :
        /\ pc[t] = "drop"
        /\ KeyArg(t) \in DOMAIN completed
        /\ completed[KeyArg(t)] # ValueArg(t)
        /\ entries[KeyArg(t)] = ValueArg(t)

\* ------------------------------------------------------------------- C5

\* C5: when the W writes that have released the lock went to W distinct keys,
\* size() returns W.
C5_SizeConsistency ==
    [][\A t \in DOMAIN pc :
          (Leaves(t, "len") /\ nwrites = Cardinality(DOMAIN completed))
              => count'[t] = nwrites]_vars

\* size() has returned 2 after writes to two keys, with a read going on.
C5_Witness ==
    \E c, d \in DOMAIN pc :
        /\ pc[c] = "ret"
        /\ call[c].op = "size"
        /\ count[c] = 2
        /\ nwrites = 2
        /\ pc[d] = "get"

\* ------------------------------------------------------------------- C6

\* C6: once main has joined the writer and the three readers, the cache holds
\* exactly key0..key4, key_n -> value_n, and its len is 5.
C6_FinalState ==
    pc[MainThread] = "done" =>
        /\ MapLen(entries) = NumWrites
        /\ DOMAIN entries = {Key(n) : n \in 0..(NumWrites - 1)}
        /\ \A n \in 0..(NumWrites - 1) : entries[Key(n)] = Value(n)

\* main has joined every thread.
C6_Witness ==
    /\ pc[MainThread] = "done"
    /\ joined = NumReaders
    /\ \A t \in Readers \cup {WriterThread} : pc[t] = "done"

\* ------------------------------------------------------------------- C7

\* The iterations of reader r whose read has not returned yet.
ReadsAhead(r) ==
    IF pc[r] \in {"unspawned", "read", "get"}
    THEN j[r]..(NumReads - 1)
    ELSE (j[r] + 1)..(NumReads - 1)

\* The writer has completed its writes: the last one has released the lock
\* (the writer thread itself ends one sleep later).
WriterCompleted == nwrites = NumWrites

\* C7 as the specification states it: every reader observes value0..value4
\* for the corresponding keys after the writer has completed; so, at the step
\* that completes the writer, every reader still has a read of each of the
\* five keys ahead of it.
C7_Original ==
    [][(~WriterCompleted /\ WriterCompleted') =>
          \A r \in Readers : \A n \in 0..(KeyCycle - 1) :
              \E jj \in ReadsAhead(r) : jj % KeyCycle = n]_vars

\* C7 as amended: a read of key_n by a reader that returns after the writer
\* has completed returns value_n (a reader whose reads came earlier may have
\* observed only "Not found").
C7_ReadsAfterWriter ==
    [][\A r \in Readers :
          (WriterCompleted /\ Leaves(r, "get"))
              => value'[r] = Value(j[r] % KeyCycle)]_vars

\* The writer has completed and a reader that has observed nothing yet holds
\* shared access for its first read.
C7_Witness ==
    /\ WriterCompleted
    /\ \E r \in Readers : pc[r] = "get" /\ j[r] = 0

\* ------------------------------------------------------------------- C8

OutputHolders == {t \in DOMAIN pc : lockg[t]}

\* C9: at most one thread holds the output mutex, and a thread writes its
\* line only while it holds it.
C9_OutputExclusion ==
    /\ Cardinality(OutputHolders) <= 1
    /\ cout = (OutputHolders # {})
    /\ \A t \in DOMAIN pc : pc[t] = "println" => lockg[t]

\* A thread holds the output mutex while another waits for it.
C9_Witness ==
    \E t, u \in DOMAIN pc :
        /\ t # u
        /\ lockg[t]
        /\ pc[t] = "println"
        /\ pc[u] = "lock"

\* ------------------------------------------------------------------ C10

NoNesting ==
    \A t \in DOMAIN pc :
        /\ lockg[t] => (guard[t] = "none" /\ pc[t] \notin {"read", "write", "size"})
        /\ guard[t] # "none" => (~lockg[t] /\ pc[t] # "lock")

\* C10: no thread holds the output mutex while it holds or waits for the cache
\* lock, nor the cache lock while it holds or waits for the output mutex; and
\* while a thread is unfinished some thread can take a step.
C10_NoNestedLocks ==
    /\ NoNesting
    /\ (\E t \in DOMAIN pc : pc[t] # "done") => ENABLED Next

\* A thread holds the output mutex while another holds the cache lock and a
\* third waits for the cache lock.
C10_Witness ==
    \E t, u, v \in DOMAIN pc :
        /\ lockg[t]
        /\ guard[u] = "write"
        /\ pc[v] = "read"

\* ------------------------------------------------------------------ C11

\* The scheduler runs a thread that can run: some enabled step is taken.
\* (Fairness to each single thread implies it, and this is all that
\* termination needs: no step can be repeated forever.)
FairSpec == Spec /\ WF_vars(Next)

AllCompleted ==
    /\ \A t \in DemoThreads : pc[t] = "done"
    /\ i = NumWrites
    /\ nwrites = NumWrites
    /\ \A r \in Readers : j[r] = NumReads /\ printed[r] = NumReads
    /\ joined = NumReaders
    /\ rw = [readers |-> 0, writer |-> FALSE]
    /\ ~cout

\* Every thread has completed: 5 writes, 3 x 10 reads, all joins returned.
C11_Witness == AllCompleted /\ printed[WriterThread] = NumWrites

\* C11: under fair scheduling the writer ends after its 5 writes, each reader
\* after its 10 reads, and main's joins all return; nothing stays blocked on
\* the cache lock or on the output mutex.
C11_Termination == <>[]AllCompleted

\* ------------------------------------------------------------------ C12

\* C12: main joins the writer first and then the readers in spawn order: the
\* writer is done once main is past its join, reader n is done once n + 1
\* readers are joined, and when main is done every thread is done and holds
\* no lock.
C12_JoinOrder ==
    /\ pc[MainThread] \in {"join_readers", "done"} => pc[WriterThread] = "done"
    /\ joined > 0 => pc[MainThread] \in {"join_readers", "done"}
    /\ \A n \in 0..(NumReaders - 1) : n < joined => pc[Reader(n)] = "done"
    /\ pc[MainThread] = "done" =>
          /\ joined = NumReaders
          /\ \A t \in DemoThreads : pc[t] = "done" /\ guard[t] = "none" /\ ~lockg[t]
          /\ rw.readers = 0 /\ ~rw.writer /\ ~cout

\* main waits for readers[1], in spawn order, although readers[2] is done.
C12_Witness ==
    /\ pc[MainThread] = "join_readers"
    /\ joined = 1
    /\ pc[Reader(1)] # "done"
    /\ pc[Reader(2)] = "done"

\* ------------------------------------------------------------------ C13

\* C13: a thread holds the cache lock only between its acquisition and the
\* end of the one lookup, insert or count: shared access exactly in "get" and
\* "len", exclusive access exactly in "insert" and "drop", and the lock's own
\* state says the same. A thread that prints, sleeps or is done holds no
\* cache lock; one that sleeps or is done holds no output mutex.
C13_ScopedRelease ==
    /\ \A t \in DOMAIN pc :
        /\ guard[t] = "read" <=> pc[t] \in {"get", "len"}
        /\ guard[t] = "write" <=> pc[t] \in {"insert", "drop"}
        /\ pc[t] \in {"lock", "println", "sleep", "done"} => guard[t] = "none"
        /\ pc[t] \in {"sleep", "done"} => ~lockg[t]
        /\ lockg[t] <=> pc[t] = "println"
    /\ rw.readers = Cardinality({t \in DOMAIN pc : pc[t] \in {"get", "len"}})
    /\ rw.writer = (\E t \in DOMAIN pc : pc[t] \in {"insert", "drop"})
    /\ cout = (\E t \in DOMAIN pc : pc[t] = "println")

\* One thread sleeps, one prints, one is done, and the cache lock is held by
\* yet another.
C13_Witness ==
    \E t, u, v, w \in DOMAIN pc :
        /\ pc[t] = "sleep"
        /\ pc[u] = "println"
        /\ pc[v] = "done"
        /\ guard[w] = "read"

\* ------------------------------------------------------------------ C14

\* The entries of every key but `key` are the same before and after the step.
OthersUnchanged(key) ==
    \A k \in ((DOMAIN entries) \cup (DOMAIN entries')) \ {key} :
        /\ k \in DOMAIN entries
        /\ k \in DOMAIN entries'
        /\ entries'[k] = entries[k]

\* C14: the lookup step of read and the count step of size leave the entries
\* as they are; the entries change only in the insert step of a write, made
\* by a thread holding exclusive access, and then only the written key's.
C14_Frame ==
    [][/\ \A t \in DOMAIN pc :
            (Leaves(t, "get") \/ Leaves(t, "len") \/ Leaves(t, "read")
                \/ Leaves(t, "size")) => entries' = entries
       /\ \A t \in DOMAIN pc :
            Leaves(t, "insert") =>
                /\ guard[t] = "write"
                /\ OthersUnchanged(KeyArg(t))
       /\ entries' # entries => \E t \in DOMAIN pc : Leaves(t, "insert")]_vars

\* A write has inserted its key while the other key has an entry, and a read
\* and a size() have returned.
C14_Witness ==
    \E t, u \in DOMAIN pc :
        /\ pc[t] = "drop"
        /\ \E k \in DOMAIN entries : k # KeyArg(t)
        /\ pc[u] = "ret"
        /\ call[u].op \in {"read", "size"}

\* ------------------------------------------------------------------ C15

\* The call of thread t that is at its lock acquisition fails: the thread
\* panics, and the call returns nothing and changes nothing.
CallFails(t) ==
    /\ pc'[t] = "panicked"
    /\ entries' = entries
    /\ value' = value
    /\ count' = count
    /\ guard' = guard
    /\ rw' = rw

\* C15: a thread that panics while it holds exclusive access leaves the
\* RwLock poisoned; the RwLock stays poisoned; from then on no thread holds a
\* guard, every read, write and size call that reaches its lock acquisition
\* panics without returning anything, and the entries never change.
C15_PoisonFatal ==
    /\ [](poison.rw => /\ \A t \in DOMAIN pc : guard[t] = "none"
                       /\ rw = [readers |-> 0, writer |-> FALSE])
    /\ [][/\ \A t \in DOMAIN pc :
               (guard[t] = "write" /\ pc'[t] = "panicked") => poison'.rw
          /\ poison.rw => poison'.rw
          /\ poison.rw => entries' = entries
          /\ \A t \in DOMAIN pc :
               (poison.rw /\ (Leaves(t, "read") \/ Leaves(t, "write")
                                \/ Leaves(t, "size"))) => CallFails(t)]_vars

\* A client panicked holding exclusive access, and a read, write or size
\* of the other client, called after that, has panicked at the poisoned lock.
C15_Witness ==
    \E t, u \in DOMAIN pc :
        /\ t # u
        /\ poison.rw
        /\ pc[t] = "panicked" /\ call[t].op = "write"
        /\ pc[u] = "panicked" /\ call[u].op \in {"read", "size"}
        /\ entries # EmptyMap

\* ------------------------------------------------------------------ C16

Panicked == {t \in DOMAIN pc : pc[t] = "panicked"}

\* C16: main's join of a panicked thread makes main panic, and main passes a
\* join only of a thread that finished; so main has not completed in any
\* state where the writer or a reader has panicked.
C16_JoinFailureFatal ==
    /\ [](pc[MainThread] = "done" => Panicked = {})
    /\ [](pc[MainThread] \in {"join_readers", "done"} => pc[WriterThread] = "done")
    /\ [](\A n \in 0..(NumReaders - 1) : n < joined => pc[Reader(n)] = "done")
    /\ [][/\ (Leaves(MainThread, "join_writer") /\ pc[WriterThread] = "panicked")
               => pc'[MainThread] = "panicked"
          /\ (Leaves(MainThread, "join_readers") /\ joined' = joined)
               => (pc[Reader(joined)] = "panicked" /\ pc'[MainThread] = "panicked")
          /\ pc[MainThread] = "panicked" => pc'[MainThread] = "panicked"]_vars

\* main panicked at the join of a reader, having joined the writer and an
\* earlier reader that both finished.
C16_Witness ==
    /\ pc[MainThread] = "panicked"
    /\ pc[WriterThread] = "done"
    /\ joined = 1
    /\ pc[Reader(1)] = "panicked"

\* ------------------------------------------------------------------ C17

\* {key_m -> value_m : 0 <= m < n}
PrefixMap(n) ==
    [k \in {Key(m) : m \in 0..(n - 1)} |->
        Value(CHOOSE m \in 0..(n - 1) : Key(m) = k)]

\* The writes whose insertion is made: those that returned, and the one the
\* writer is in when it has inserted and still holds the write guard.
Inserted == nwrites + (IF pc[WriterThread] = "drop" THEN 1 ELSE 0)

\* C17: the entries are exactly key_m -> value_m for m < n, n in 0..5 being
\* the number of writes the writer has made (n is the number of write calls
\* that returned in every state where the writer does not hold the write
\* guard, and the loop index i or i + 1); the size never decreases.
C17_Prefix ==
    /\ [](/\ Inserted \in 0..NumWrites
          /\ entries = PrefixMap(Inserted)
          /\ MapLen(entries) = Inserted
          /\ ~rw.writer => Inserted = nwrites
          /\ nwrites \in {i, i + 1}
          /\ \A m, n \in 0..(NumWrites - 1) :
                (m < n /\ Key(n) \in DOMAIN entries) => Key(m) \in DOMAIN entries)
    /\ [][MapLen(entries') >= MapLen(entries)]_vars

\* The third write has inserted key2 while a reader is about to look up.
C17_Witness ==
    /\ pc[WriterThread] = "drop"
    /\ i = 2
    /\ MapLen(entries) = 3
    /\ \E r \in Readers : pc[r] = "read" /\ j[r] > 2

\* ------------------------------------------------------------------ C18

\* The index of the key of reader r's current read: j % 5.
ReadIndex(r) == j[r] % KeyCycle

\* C18: the j-th read of a reader returns "Not found" or value_(j mod 5), the
\* value exactly when key_(j mod 5) has an entry; an entry, once there, stays
\* with its value, so a later lookup of that key finds it; and a read of
\* key_k that returns while another reader holds value_k from its own read of
\* key_k returns value_k as well.
C18_MonotonicReads ==
    [][/\ \A r \in Readers :
            Leaves(r, "get") =>
                /\ value'[r] \in {NotFound, Value(ReadIndex(r))}
                /\ value'[r] = Value(ReadIndex(r))
                      <=> Key(ReadIndex(r)) \in DOMAIN entries
       /\ \A k \in DOMAIN entries :
            k \in DOMAIN entries' /\ entries'[k] = entries[k]
       /\ \A r, q \in Readers :
            (/\ r # q
             /\ pc[r] \in {"lock", "println"}
             /\ value[r] = Value(ReadIndex(r))
             /\ Leaves(q, "get")
             /\ ReadIndex(q) = ReadIndex(r))
                => value'[q] = value[r]]_vars

\* A reader holds value0 from its first read, and another reader, five reads
\* ahead, has read key0 again and holds value0 too; the third got "Not found".
C18_Witness ==
    \E r, q, p \in Readers :
        /\ j[r] = 0 /\ value[r] = Value(0)
        /\ j[q] = KeyCycle /\ value[q] = Value(0)
        /\ value[p] = NotFound

\* ------------------------------------------------------------------ C19

\* The status lines the writer has emitted: "Writer 0: 0" .. "Writer n-1: n-1".
WriterLines == printed[WriterThread]

\* C19: the writer emits line i, i being its loop index, when write i has
\* returned and its guard is released; the lines come one at a time in the
\* order of i; the cache holds key_0..key_i with their values once "Writer i"
\* is emitted, and a lookup of key_i made after that returns value_i.
C19_LinesFollowWrites ==
    /\ [](/\ WriterLines <= nwrites
          /\ WriterLines = (IF pc[WriterThread] = "sleep" THEN i + 1 ELSE i)
          /\ \A m \in 0..(WriterLines - 1) :
                Key(m) \in DOMAIN entries /\ entries[Key(m)] = Value(m))
    /\ [][/\ WriterLines' # WriterLines =>
               /\ WriterLines' = WriterLines + 1
               /\ WriterLines = i
               /\ nwrites = i + 1
               /\ guard[WriterThread] = "none" /\ ~rw.writer
               /\ Leaves(WriterThread, "println")
          /\ Leaves(WriterThread, "println") => WriterLines' = WriterLines + 1
          /\ \A r \in Readers :
               (Leaves(r, "get") /\ ReadIndex(r) < WriterLines)
                   => value'[r] = Value(ReadIndex(r))]_vars

\* "Writer 2: 2" is the last line emitted, and a reader that asked for key2
\* got value2.
C19_Witness ==
    /\ WriterLines = 3
    /\ pc[WriterThread] = "sleep"
    /\ \E r \in Readers :
        /\ pc[r] = "lock"
        /\ ReadIndex(r) = 2
        /\ value[r] = Value(2)

\* ------------------------------------------------------------------ C20

\* The threads that hold the counter's guard.
CounterHolders == {t \in DOMAIN pc : pc[t] \in {"load", "store", "unlock"}}

\* The workers whose increment is stored.
Incremented == {t \in Workers : pc[t] \in {"unlock", "done"}}

\* C20: at most one thread holds the counter mutex; the counter is the
\* number of increments made, none is lost; and the value main reads after
\* joining the five threads is exactly 5.
C20_NoLostUpdate ==
    /\ Cardinality(CounterHolders) <= 1
    /\ cmutex = (CounterHolders # {})
    /\ counter = Cardinality(Incremented)
    /\ pc[MainThread] \in {"lock", "load", "unlock", "done"}
          => (joined = NumThreads /\ counter = NumThreads)
    /\ pc[MainThread] \in {"unlock", "done"} => total = NumThreads

\* main has read the counter after the five joins.
C20_Witness ==
    /\ pc[MainThread] = "done"
    /\ joined = NumThreads
    /\ total = NumThreads
    /\ ~cmutex

====
